---- MODULE Spec2Model ----
(***************************************************************************)
(* Model of the quiz analyzer (src/ai_analyzer.py) and of the Flask        *)
(* endpoints that serve it from one shared QuizAnalyzer instance           *)
(* (src/api_server.py).                                                    *)
(*                                                                         *)
(* Data representation                                                     *)
(*   - a Python dict read with .get(key, default) is a TLA+ function whose *)
(*     DOMAIN is the set of keys present; Get models dict.get;             *)
(*   - the subjects dict, whose iteration order is its insertion order, is *)
(*     a sequence of [key, stats] entries with pairwise distinct keys;     *)
(*   - an accuracy (the float correct / total * 100) is the exact rational *)
(*     [num, den]; comparisons cross-multiply.  For the counts used here   *)
(*     the float comparisons against 40, 50, 60, 70, 75, 80 and 85 and the *)
(*     roundings agree with the exact ones;                                *)
(*   - round(accuracy, 2) is an integer number of hundredths, and          *)
(*     f"{accuracy:.0f}" an integer, both rounding half to even as Python  *)
(*     does;                                                               *)
(*   - an f-string is the sequence of its literal and formatted pieces.    *)
(***************************************************************************)
EXTENDS Integers, Sequences, FiniteSets, TLC

\* dict.get(key, default)
Get(d, key, default) == IF key \in DOMAIN d THEN d[key] ELSE default

\* {} : the dict with no keys
EmptyDict == [k \in {} |-> 0]

\* str.capitalize() on the subject keys used as inputs: first letter upper
\* case, every other letter lower case.
Capitalize(s) ==
    CASE s = "biology" -> "Biology"
      [] s = "chemistry" -> "Chemistry"
      [] s = "physics" -> "Physics"
      [] s = "maths" -> "Maths"
      [] OTHER -> s

----------------------------------------------------------------------------
(* Arithmetic on accuracies *)

\* accuracy = (correct / total * 100) if total > 0 else 0
Accuracy(correct, total) ==
    IF total > 0 THEN [num |-> correct * 100, den |-> total]
                 ELSE [num |-> 0, den |-> 1]

\* accuracy >= k and accuracy < k for an integer threshold k
AtLeast(acc, k) == acc.num >= k * acc.den
Below(acc, k) == acc.num < k * acc.den

\* a < b on two accuracies (the comparison list.sort makes on the keys)
AccLess(a, b) == a.num * b.den < b.num * a.den

\* Round the non-negative rational n / d to the nearest integer, half to even.
RoundHalfEven(n, d) ==
    LET q == n \div d
        r == n % d
    IN  IF 2 * r < d THEN q
        ELSE IF 2 * r > d THEN q + 1
        ELSE IF q % 2 = 0 THEN q ELSE q + 1

\* round(accuracy, 2), in hundredths of a percent
Round2(acc) == RoundHalfEven(acc.num * 100, acc.den)

\* f"{accuracy:.0f}"
Format0(acc) == RoundHalfEven(acc.num, acc.den)

----------------------------------------------------------------------------
(* list.sort(key = ...) *)

\* Mutant: an insertion that puts e before the entries of equal key
RECURSIVE InsertBeforeEqual(_, _)
InsertBeforeEqual(e, s) ==
    IF s = <<>> THEN <<e>>
    ELSE IF ~AccLess(s[1].key, e.key) THEN <<e>> \o s
    ELSE <<s[1]>> \o InsertBeforeEqual(e, Tail(s))

\* One insertion of the stable sort list.sort performs on the (key, item)
\* pairs: e goes after every entry whose key is not greater than its own.
RECURSIVE InsertByKey(_, _)
InsertByKey(e, s) ==
    IF s = <<>> THEN <<e>>
    ELSE IF AccLess(e.key, s[1].key) THEN <<e>> \o s
    ELSE <<s[1]>> \o InsertByKey(e, Tail(s))

RECURSIVE SortByKey(_)
SortByKey(s) ==
    IF s = <<>> THEN <<>>
    ELSE InsertByKey(s[Len(s)], SortByKey(SubSeq(s, 1, Len(s) - 1)))

\* The indices from i on at which flags holds, in order: the subjects a
\* loop over subjects.items() appends for.
RECURSIVE SelectIdx(_, _)
SelectIdx(flags, i) ==
    IF i > Len(flags) THEN <<>>
    ELSE (IF flags[i] THEN <<i>> ELSE <<>>) \o SelectIdx(flags, i + 1)

----------------------------------------------------------------------------
(* QuizAnalyzer *)

\* self.subject_topics, as built by __init__ (the topic lists by their length)
SubjectTopics == [biology |-> 8, chemistry |-> 11, physics |-> 13]

\* quiz_data.get('subjects', {}) : the (key, stats) entries in iteration order
SubjectsOf(quiz_data) == Get(quiz_data, "subjects", <<>>)

\* stats.get('total', 0), stats.get('correct', 0) and the accuracy they give
StatsAccuracy(stats) == Accuracy(Get(stats, "correct", 0), Get(stats, "total", 0))

\* _analyze_overall: the performance level
PerformanceLevel(accuracy) ==
    IF AtLeast(accuracy, 85) THEN "Excellent"
    ELSE IF AtLeast(accuracy, 70) THEN "Good"
    ELSE IF AtLeast(accuracy, 50) THEN "Average"
    ELSE "Needs Improvement"

PerformanceMessage(level) ==
    CASE level = "Excellent" ->
           "Outstanding performance! You have a strong grasp of the material."
      [] level = "Good" ->
           "Good work! Focus on weak areas to reach excellence."
      [] level = "Average" ->
           "You're making progress. Consistent practice will improve your scores."
      [] OTHER ->
           "Don't worry! With focused study, you can significantly improve."

\* _analyze_overall
AnalyzeOverall(quiz_data) ==
    LET overall == Get(quiz_data, "overall", EmptyDict)
        total == Get(overall, "total", 0)
        correct == Get(overall, "correct", 0)
        answered == Get(overall, "answered", 0)
        accuracy == Accuracy(correct, total)
        completion_rate == Accuracy(answered, total)
        level == PerformanceLevel(accuracy)
    IN  [accuracy |-> Round2(accuracy),
         completion_rate |-> Round2(completion_rate),
         total_questions |-> total,
         correct_answers |-> correct,
         incorrect_answers |-> answered - correct,
         unanswered |-> total - answered,
         performance_level |-> level,
         message |-> PerformanceMessage(level)]

\* Mutant: the bounds 85, 70 and 50 taken as exclusive
GetStatusExclusive(accuracy) ==
    IF accuracy.num > 85 * accuracy.den THEN "Strong"
    ELSE IF accuracy.num > 70 * accuracy.den THEN "Moderate"
    ELSE IF accuracy.num > 50 * accuracy.den THEN "Weak"
    ELSE "Critical"

\* _get_status
GetStatus(accuracy) ==
    IF AtLeast(accuracy, 85) THEN "Strong"
    ELSE IF AtLeast(accuracy, 70) THEN "Moderate"
    ELSE IF AtLeast(accuracy, 50) THEN "Weak"
    ELSE "Critical"

\* _analyze_subjects: the entry built for one subject
SubjectEntry(stats) ==
    LET total == Get(stats, "total", 0)
        correct == Get(stats, "correct", 0)
        accuracy == Accuracy(correct, total)
    IN  [accuracy |-> Round2(accuracy),
         correct |-> correct,
         total |-> total,
         wrong |-> total - correct,
         status |-> GetStatus(accuracy),
         improvement_needed |-> Below(accuracy, 70),
         priority |-> IF Below(accuracy, 50) THEN "High"
                      ELSE IF Below(accuracy, 70) THEN "Medium" ELSE "Low"]

\* _analyze_subjects: the result dict, in insertion order
AnalyzeSubjects(quiz_data) ==
    LET subjects == SubjectsOf(quiz_data)
    IN  [i \in 1..Len(subjects) |->
            [key |-> subjects[i].key, value |-> SubjectEntry(subjects[i].stats)]]

\* _identify_strengths: the test a subject passes to be listed
IsStrength(accuracy) == AtLeast(accuracy, 75)

\* _identify_strengths: the string appended for one subject
StrengthText(subject, accuracy) ==
    <<Capitalize(subject), ": ", Format0(accuracy),
      "% accuracy - Excellent understanding">>

\* _identify_strengths: what stands in for an empty list
StrengthPlaceholder == <<"Keep practicing to identify your strong subjects">>

\* Mutant: the empty list returned as it is
WithoutPlaceholder(strengths) == strengths

\* _identify_strengths: `if not strengths: strengths.append(placeholder)`
WithPlaceholder(strengths) ==
    IF strengths = <<>> THEN <<StrengthPlaceholder>> ELSE strengths

\* _identify_strengths
IdentifyStrengths(quiz_data) ==
    LET subjects == SubjectsOf(quiz_data)
        flags == [i \in 1..Len(subjects) |->
                     IsStrength(StatsAccuracy(subjects[i].stats))]
        idx == SelectIdx(flags, 1)
    IN  WithPlaceholder(
          [p \in 1..Len(idx) |->
              StrengthText(subjects[idx[p]].key,
                           StatsAccuracy(subjects[idx[p]].stats))])

\* _get_action_plan
GetActionPlan(subject, accuracy) ==
    IF Below(accuracy, 40) THEN
      <<"Start with fundamentals. Review basic concepts in ", subject,
        " before attempting practice questions.">>
    ELSE IF Below(accuracy, 60) THEN
      <<"Focus on understanding core concepts. Practice more ", subject,
        " questions and review mistakes.">>
    ELSE
      <<"You're close! Practice advanced ", subject,
        " problems and review common error patterns.">>

\* _identify_weaknesses: the test a subject passes to be listed
IsWeakness(accuracy) == Below(accuracy, 70)

\* _identify_weaknesses: the record appended for one subject
WeaknessRecord(subject, stats) ==
    LET total == Get(stats, "total", 0)
        correct == Get(stats, "correct", 0)
        accuracy == Accuracy(correct, total)
    IN  [subject |-> Capitalize(subject),
         accuracy |-> Round2(accuracy),
         questions_wrong |-> total - correct,
         severity |-> IF Below(accuracy, 50) THEN "Critical" ELSE "Moderate",
         action |-> GetActionPlan(subject, accuracy)]

\* Mutant: the list left in iteration order
UnsortedWeaknesses(weaknesses) == weaknesses

\* weaknesses.sort(key=lambda x: x['accuracy']) : the keys are the rounded
\* accuracies the records hold
SortWeaknesses(weaknesses) ==
    LET keyed == [i \in 1..Len(weaknesses) |->
                     [key |-> [num |-> weaknesses[i].accuracy, den |-> 1],
                      item |-> weaknesses[i]]]
        sorted == SortByKey(keyed)
    IN  [i \in 1..Len(sorted) |-> sorted[i].item]

\* _identify_weaknesses
IdentifyWeaknesses(quiz_data) ==
    LET subjects == SubjectsOf(quiz_data)
        flags == [i \in 1..Len(subjects) |->
                     IsWeakness(StatsAccuracy(subjects[i].stats))]
        idx == SelectIdx(flags, 1)
    IN  SortWeaknesses(
          [p \in 1..Len(idx) |->
              WeaknessRecord(subjects[idx[p]].key, subjects[idx[p]].stats)])

----------------------------------------------------------------------------
(* _generate_recommendations *)

\* subject_scores after subject_scores.sort(key=lambda x: x[1]): the
\* (subject, accuracy, stats) tuples by unrounded accuracy, stable
SubjectScores(quiz_data) ==
    LET subjects == SubjectsOf(quiz_data)
        keyed == [i \in 1..Len(subjects) |->
                     [key |-> StatsAccuracy(subjects[i].stats),
                      item |-> [subject |-> subjects[i].key,
                                accuracy |-> StatsAccuracy(subjects[i].stats),
                                stats |-> subjects[i].stats]]]
        sorted == SortByKey(keyed)
    IN  [i \in 1..Len(sorted) |-> sorted[i].item]

\* `if weakest_score < 70`
WeakestFires(weakest_score) == Below(weakest_score, 70)

\* Mutant: `if answered <= total`
CompletionFiresInclusive(answered, total) == answered <= total

\* `if answered < total`
CompletionFires(answered, total) == answered < total

\* `if strongest_score >= 75`
StrongestFires(strongest_score) == AtLeast(strongest_score, 75)

\* Recommendation 1: Weakest subject
WeakestRecommendation(weakest_subject, weakest_score) ==
    [priority |-> "High",
     subject |-> Capitalize(weakest_subject),
     title |-> <<"Focus on ", Capitalize(weakest_subject)>>,
     description |->
       <<"Your ", weakest_subject, " score is ", Format0(weakest_score),
         "%. This needs immediate attention. ",
         "Dedicate at least 1-2 hours daily to strengthen this subject.">>,
     action_items |->
       << <<"Review fundamental ", weakest_subject, " concepts">>,
          <<"Practice 10-15 questions daily">>,
          <<"Watch tutorial videos on weak topics">>,
          <<"Make summary notes of key concepts">> >>]

\* Recommendation 2: Practice consistency
CompletionRecommendation(unanswered) ==
    [priority |-> "Medium",
     subject |-> "All Subjects",
     title |-> <<"Complete All Questions">>,
     description |->
       <<"You left ", unanswered,
         " questions unanswered. Always attempt all questions to maximize learning.">>,
     action_items |->
       << <<"Practice time management">>,
          <<"Attempt educated guesses for uncertain answers">>,
          <<"Review questions you skipped">> >>]

\* Recommendation 3: Maintain strengths
StrengthRecommendation(strongest_subject, strongest_score) ==
    [priority |-> "Low",
     subject |-> Capitalize(strongest_subject),
     title |-> <<"Maintain Your ", Capitalize(strongest_subject), " Strength">>,
     description |->
       <<"You scored ", Format0(strongest_score), "% in ", strongest_subject,
         "! Keep practicing to maintain this level.">>,
     action_items |->
       << <<"Solve advanced ", strongest_subject, " problems">>,
          <<"Help peers who struggle with this subject">>,
          <<"Take mock tests to stay sharp">> >>]

\* _generate_recommendations
GenerateRecommendations(quiz_data) ==
    LET subject_scores == SubjectScores(quiz_data)
        overall == Get(quiz_data, "overall", EmptyDict)
        answered == Get(overall, "answered", 0)
        total == Get(overall, "total", 0)
        first == IF subject_scores # <<>>
                    /\ WeakestFires(subject_scores[1].accuracy)
                 THEN <<WeakestRecommendation(subject_scores[1].subject,
                                              subject_scores[1].accuracy)>>
                 ELSE <<>>
        second == IF CompletionFires(answered, total)
                  THEN <<CompletionRecommendation(total - answered)>>
                  ELSE <<>>
        last == subject_scores[Len(subject_scores)]
        third == IF Len(subject_scores) > 0 /\ StrongestFires(last.accuracy)
                 THEN <<StrengthRecommendation(last.subject, last.accuracy)>>
                 ELSE <<>>
    IN  first \o second \o third

----------------------------------------------------------------------------
(* _create_study_plan *)

\* time_percent, in hundredths
TimePercent(accuracy) ==
    IF Below(accuracy, 50) THEN 40
    ELSE IF Below(accuracy, 70) THEN 35
    ELSE 25

\* The integer part of the double total_time * time_percent, total_time
\* being 180: 180 * 0.40 is 72.0 and 180 * 0.25 is 45.0, and 180 * 0.35 is
\* 62.99999999999999, the double 0.35 being less than 35/100.
BudgetFloor(time_percent) ==
    CASE time_percent = 40 -> 72
      [] time_percent = 35 -> 62
      [] time_percent = 25 -> 45

\* int(total_time * time_percent / len(subjects)): for a double p >= 0 and an
\* integer n >= 1 the integer part of p / n is that of floor(p) / n.
TimeMinutes(time_percent, n) == BudgetFloor(time_percent) \div n

FocusLevel(accuracy) ==
    IF Below(accuracy, 60) THEN "High"
    ELSE IF Below(accuracy, 75) THEN "Medium"
    ELSE "Maintenance"

GoalTarget(accuracy) ==
    IF Below(accuracy, 60) THEN 70
    ELSE IF Below(accuracy, 80) THEN 85
    ELSE 90

\* _create_study_plan: both loops run once per subject, so neither runs, and
\* len(subjects) divides nothing, when subjects is empty
CreateStudyPlan(quiz_data) ==
    LET subjects == SubjectsOf(quiz_data)
        acc(i) == StatsAccuracy(subjects[i].stats)
    IN  [daily_schedule |->
           [i \in 1..Len(subjects) |->
              [key |-> subjects[i].key,
               value |-> [time_minutes |->
                            TimeMinutes(TimePercent(acc(i)), Len(subjects)),
                          focus_level |-> FocusLevel(acc(i))]]],
         weekly_goals |->
           [i \in 1..Len(subjects) |->
              <<"Improve ", Capitalize(subjects[i].key), " from ",
                Format0(acc(i)), "% to ", GoalTarget(acc(i)), "%">>],
         study_duration |-> "2-3 hours daily"]

----------------------------------------------------------------------------
(* analyze_results *)

\* The clock counts ticks; TicksPerSecond of them make one second.
TicksPerSecond == 2

\* f"analysis_{datetime.now().strftime('%Y%m%d_%H%M%S')}": the clock reading
\* cut to whole seconds
FormatId(clock) == <<"analysis_", clock \div TicksPerSecond>>

\* datetime.now().isoformat(): the clock reading with its sub-second part
IsoFormat(clock) == <<"iso", clock>>

\* The keys of the dict analyze_results builds, in the order their values
\* are evaluated
AnalysisFields ==
    <<"student_id", "analysis_id", "timestamp", "overall_performance",
      "subject_analysis", "recommendations", "study_plan", "strengths",
      "weaknesses">>

\* analyze_results: the value of one key, the clock reading `clock` when it
\* is evaluated
FieldValue(field, quiz_data, clock) ==
    CASE field = "student_id" -> Get(quiz_data, "student_id", "anonymous")
      [] field = "analysis_id" -> FormatId(clock)
      [] field = "timestamp" -> IsoFormat(clock)
      [] field = "overall_performance" -> AnalyzeOverall(quiz_data)
      [] field = "subject_analysis" -> AnalyzeSubjects(quiz_data)
      [] field = "recommendations" -> GenerateRecommendations(quiz_data)
      [] field = "study_plan" -> CreateStudyPlan(quiz_data)
      [] field = "strengths" -> IdentifyStrengths(quiz_data)
      [] field = "weaknesses" -> IdentifyWeaknesses(quiz_data)

\* analyze_results, the clock reading clock_id when analysis_id is built and
\* clock_ts when timestamp is
AnalyzeResults(quiz_data, clock_id, clock_ts) ==
    [f \in {AnalysisFields[i] : i \in 1..Len(AnalysisFields)} |->
        FieldValue(f, quiz_data, IF f = "analysis_id" THEN clock_id ELSE clock_ts)]

----------------------------------------------------------------------------
(* The values a request carries *)

\* A request body is a JSON value: an object [type, value] (value: the dict),
\* or null, an array, a string or a number [type, size] (size: its length or
\* magnitude), or, for analyze_quiz_results only, text that is not JSON
\* ("malformed").
IsDict(body) == body.type = "object"

\* Python's truth value of the parsed body (`if not quiz_data`)
Truthy(body) ==
    CASE body.type = "object" -> DOMAIN body.value # {}
      [] body.type = "null" -> FALSE
      [] OTHER -> body.size > 0

\* Most subjects a subjects dict holds
MaxSubjects == 3

\* The subject keys, in the order the dicts hold them
SubjectKeys == <<"biology", "chemistry", "physics", "maths">>

Counts(correct, total, answered) ==
    [correct |-> correct, total |-> total, answered |-> answered]

\* The per-subject records: no counts at all, the accuracies 50, 70, 75 and
\* 85 on the boundaries, biology's record of sample_data (62.5), and two
\* records whose accuracies differ (39.8058.. and 39.8148..) and round to
\* the same 39.81
SubjectStats ==
    { EmptyDict,
      Counts(1, 2, 2), Counts(7, 10, 10), Counts(3, 4, 4), Counts(17, 20, 20),
      Counts(10, 16, 16), Counts(41, 103, 103), Counts(43, 108, 108) }

\* The overall records: all zero, sample_data's, and one on each boundary
OverallStats ==
    { Counts(0, 0, 0), Counts(45, 75, 70), Counts(17, 20, 20),
      Counts(7, 10, 10), Counts(1, 2, 1) }

\* Every subjects dict over the first n keys: each key absent or present
\* with one of the records
RECURSIVE SubjectDicts(_)
SubjectDicts(n) ==
    IF n = 0 THEN { <<>> }
    ELSE LET shorter == SubjectDicts(n - 1)
         IN  shorter \cup
             { Append(d, [key |-> SubjectKeys[n], stats |-> st]) :
                 d \in shorter, st \in SubjectStats }

AllSubjectDicts ==
    SubjectDicts(IF MaxSubjects < Len(SubjectKeys) THEN MaxSubjects
                 ELSE Len(SubjectKeys))

\* The dicts: overall and subjects each present or missing
QuizDicts ==
    { [overall |-> o, subjects |-> sd] : o \in OverallStats, sd \in AllSubjectDicts }
      \cup { [subjects |-> sd] : sd \in AllSubjectDicts }
      \cup { [overall |-> o] : o \in OverallStats }
      \cup { EmptyDict, [student_id |-> "s1"] }

\* sample_data of __main__
SampleData ==
    [overall |-> Counts(45, 75, 70),
     subjects |-> << [key |-> "biology", stats |-> Counts(10, 16, 16)],
                     [key |-> "chemistry", stats |-> Counts(18, 26, 24)],
                     [key |-> "physics", stats |-> Counts(17, 33, 30)] >>]

NonDictBodies ==
    { [type |-> "null", size |-> 0],
      [type |-> "array", size |-> 0], [type |-> "array", size |-> 1],
      [type |-> "string", size |-> 1], [type |-> "number", size |-> 5] }

Bodies == { [type |-> "object", value |-> d] : d \in QuizDicts } \cup NonDictBodies

MalformedText == [type |-> "malformed", size |-> 0]

----------------------------------------------------------------------------
(* The endpoints and analyze_quiz_results *)

\* type(quiz_data).__name__ of a parsed body that is no dict
PyTypeName(body) ==
    CASE body.type = "null" -> "NoneType"
      [] body.type = "array" -> "list"
      [] body.type = "string" -> "str"
      [] body.type = "number" -> "int"

\* What `except Exception as e` catches when quiz_data.get is called on a
\* value that is no dict, and str(e)
NoGetError(body) ==
    [class |-> "AttributeError",
     text |-> <<"'", PyTypeName(body), "' object has no attribute 'get'">>]

\* json.loads on text that is not JSON
DecodeError == [class |-> "JSONDecodeError", text |-> <<"Expecting value">>]

\* {'error': str(e), 'status': 'failed'}; `caught` keeps the class of the
\* exception the handler caught, which the payload does not carry
Failure(http, caught, text) ==
    [http |-> http, caught |-> caught,
     payload |-> [error |-> text, status |-> "failed"]]

\* analyze_results of api_server.py (POST /api/analyze)
AnalyzeEndpoint(body, clock) ==
    IF ~Truthy(body) THEN Failure(400, "none", <<"No data provided">>)
    ELSE IF IsDict(body) THEN
      [http |-> 200, caught |-> "none",
       payload |-> [status |-> "success",
                    data |-> AnalyzeResults(body.value, clock, clock)]]
    ELSE Failure(500, NoGetError(body).class, NoGetError(body).text)

\* get_recommendations (POST /api/recommendations)
RecommendationsEndpoint(body) ==
    IF IsDict(body) THEN
      [http |-> 200, caught |-> "none",
       payload |-> [status |-> "success",
                    recommendations |-> GenerateRecommendations(body.value)]]
    ELSE Failure(500, NoGetError(body).class, NoGetError(body).text)

\* get_study_plan (POST /api/study-plan)
StudyPlanEndpoint(body) ==
    IF IsDict(body) THEN
      [http |-> 200, caught |-> "none",
       payload |-> [status |-> "success",
                    study_plan |-> CreateStudyPlan(body.value)]]
    ELSE Failure(500, NoGetError(body).class, NoGetError(body).text)

\* health_check (GET /api/health)
HealthEndpoint ==
    [http |-> 200, caught |-> "none",
     payload |-> [status |-> "healthy", service |-> "AI Quiz Analyzer",
                  version |-> "1.0"]]

\* analyze_quiz_results: the JSON text it returns, by the value it encodes;
\* http is 0, the function being no endpoint
AnalyzeQuizResults(body, clock) ==
    IF body.type = "malformed" THEN Failure(0, DecodeError.class, DecodeError.text)
    ELSE IF IsDict(body) THEN
      [http |-> 0, caught |-> "none",
       payload |-> AnalyzeResults(body.value, clock, clock)]
    ELSE Failure(0, NoGetError(body).class, NoGetError(body).text)

----------------------------------------------------------------------------
(* State *)

VARIABLES
    request,         \* the body of the request in hand
    endpoint,        \* the handler that produced response ("none" before any)
    response,        \* what that handler returned
    now,             \* the clock datetime.now() reads, in ticks
    objects,         \* the quiz_data dicts in memory that calls are made on
    calls,           \* the calls in progress on the shared analyzer
    subject_topics   \* analyzer.subject_topics of the shared instance

vars == <<request, endpoint, response, now, objects, calls, subject_topics>>

handlerVars == <<request, endpoint, response>>
serverVars == <<now, objects, calls, subject_topics>>

\* Last clock reading of the model
MaxClock == 2

\* The calls that can be in progress at once
MaxCalls == 2
CallIds == 1..MaxCalls

\* The dicts in memory in the server's runs: sample_data, and a dict with a
\* strong subject and no overall record
SecondData ==
    [student_id |-> "s1",
     subjects |-> << [key |-> "biology", stats |-> Counts(17, 20, 20)],
                     [key |-> "physics", stats |-> Counts(1, 2, 2)] >>]

InitialObjects == <<SampleData, SecondData>>

\* A call: where it stands (pc, and for analyze_results the number of keys
\* evaluated), the slot of its quiz_data, its partial and its returned value;
\* arg keeps the dict as it was passed
IdleCall == [pc |-> "idle", obj |-> 0, arg |-> EmptyDict, done |-> 0,
             frame |-> EmptyDict, result |-> EmptyDict]

\* `analyzer = QuizAnalyzer()` has run; no request has been handled
ServerInit ==
    /\ now = 0
    /\ objects = InitialObjects
    /\ calls = [c \in CallIds |-> IdleCall]
    /\ subject_topics = SubjectTopics

Init ==
    /\ request \in Bodies \cup {MalformedText}
    /\ endpoint = "none"
    /\ response = EmptyDict
    /\ ServerInit

----------------------------------------------------------------------------
(* The handlers, each run from its request to its response *)

\* request.json is a parsed value; text that does not parse is refused by
\* Flask before the handler's code reads it
Parsed == request.type # "malformed"

ApiAnalyze ==
    /\ Parsed
    /\ endpoint' = "analyze"
    /\ response' = AnalyzeEndpoint(request, now)
    /\ UNCHANGED <<request, serverVars>>

ApiRecommendations ==
    /\ Parsed
    /\ endpoint' = "recommendations"
    /\ response' = RecommendationsEndpoint(request)
    /\ UNCHANGED <<request, serverVars>>

ApiStudyPlan ==
    /\ Parsed
    /\ endpoint' = "study_plan"
    /\ response' = StudyPlanEndpoint(request)
    /\ UNCHANGED <<request, serverVars>>

ApiHealth ==
    /\ endpoint' = "health"
    /\ response' = HealthEndpoint
    /\ UNCHANGED <<request, serverVars>>

\* analyze_quiz_results(quiz_data_json)
CallAnalyzeQuizResults ==
    /\ endpoint' = "analyze_quiz_results"
    /\ response' = AnalyzeQuizResults(request, now)
    /\ UNCHANGED <<request, serverVars>>

\* __main__ of ai_analyzer.py: analyze_quiz_results(json.dumps(sample_data))
RunMain ==
    /\ request' = [type |-> "object", value |-> SampleData]
    /\ endpoint' = "main"
    /\ response' = AnalyzeQuizResults([type |-> "object", value |-> SampleData], now)
    /\ UNCHANGED serverVars

Next ==
    \/ ApiAnalyze
    \/ ApiRecommendations
    \/ ApiStudyPlan
    \/ ApiHealth
    \/ CallAnalyzeQuizResults
    \/ RunMain

Spec == Init /\ [][Next]_vars

----------------------------------------------------------------------------
(* The shared analyzer under concurrent calls *)

\* Mutant: quiz_data.setdefault('overall', {}) where the code has
\* quiz_data.get('overall', {})
QuizDataAfterSetdefault(quiz_data) ==
    [k \in DOMAIN quiz_data \cup {"overall"} |->
        IF k \in DOMAIN quiz_data THEN quiz_data[k] ELSE EmptyDict]

\* What a sub-function leaves in the dict it was given: none of them assigns
\* to quiz_data or to anything reached from it
QuizDataAfter(quiz_data) == quiz_data

\* What a sub-function leaves in self.subject_topics: none of them assigns
\* to it
TopicsAfter(topics) == topics

\* Calls are numbered in the order they are made: call c can be made once
\* every call before it has been
NextToArrive(c) ==
    /\ calls[c].pc = "idle"
    /\ \A d \in CallIds : d < c => calls[d].pc # "idle"

\* A caller passes the dict in memory slot o to analyze_results
BeginAnalyze(c, o) ==
    /\ NextToArrive(c)
    /\ calls' = [calls EXCEPT ![c] =
                   [pc |-> "analyze", obj |-> o, arg |-> objects[o], done |-> 0,
                    frame |-> EmptyDict, result |-> EmptyDict]]
    /\ UNCHANGED <<now, objects, subject_topics, handlerVars>>

\* analyze_results evaluates the value of its next key: it reads the dict as
\* it is in memory now, and the clock as it stands now
EvalField(c) ==
    LET call == calls[c]
        k == call.done + 1
        field == AnalysisFields[k]
        value == FieldValue(field, objects[call.obj], now)
        frame == [f \in DOMAIN call.frame \cup {field} |->
                     IF f = field THEN value ELSE call.frame[f]]
    IN  /\ call.pc = "analyze"
        /\ calls' = [calls EXCEPT ![c] =
                       IF k = Len(AnalysisFields)
                       THEN [call EXCEPT !.pc = "done", !.done = k,
                                         !.frame = EmptyDict, !.result = frame]
                       ELSE [call EXCEPT !.done = k, !.frame = frame]]
        /\ objects' = [objects EXCEPT ![call.obj] = QuizDataAfter(@)]
        /\ subject_topics' = TopicsAfter(subject_topics)
        /\ UNCHANGED <<now, handlerVars>>

\* A caller runs _generate_recommendations on the dict in slot o
CallRecommendations(c, o) ==
    /\ NextToArrive(c)
    /\ calls' = [calls EXCEPT ![c] =
                   [pc |-> "done_recommendations", obj |-> o, arg |-> objects[o],
                    done |-> 0, frame |-> EmptyDict,
                    result |-> GenerateRecommendations(objects[o])]]
    /\ objects' = [objects EXCEPT ![o] = QuizDataAfter(@)]
    /\ subject_topics' = TopicsAfter(subject_topics)
    /\ UNCHANGED <<now, handlerVars>>

\* A caller runs _create_study_plan on the dict in slot o
CallStudyPlan(c, o) ==
    /\ NextToArrive(c)
    /\ calls' = [calls EXCEPT ![c] =
                   [pc |-> "done_study_plan", obj |-> o, arg |-> objects[o],
                    done |-> 0, frame |-> EmptyDict,
                    result |-> CreateStudyPlan(objects[o])]]
    /\ objects' = [objects EXCEPT ![o] = QuizDataAfter(@)]
    /\ subject_topics' = TopicsAfter(subject_topics)
    /\ UNCHANGED <<now, handlerVars>>

\* The clock advances
Tick ==
    /\ now < MaxClock
    /\ now' = now + 1
    /\ UNCHANGED <<objects, calls, subject_topics, handlerVars>>

ServerNext ==
    \/ \E c \in CallIds, o \in 1..Len(InitialObjects) : BeginAnalyze(c, o)
    \/ \E c \in CallIds : EvalField(c)
    \/ \E c \in CallIds, o \in 1..Len(InitialObjects) : CallRecommendations(c, o)
    \/ \E c \in CallIds, o \in 1..Len(InitialObjects) : CallStudyPlan(c, o)
    \/ Tick

ServerStart ==
    /\ request = [type |-> "object", value |-> SampleData]
    /\ endpoint = "none"
    /\ response = EmptyDict
    /\ ServerInit

SpecServer == ServerStart /\ [][ServerNext]_vars

----------------------------------------------------------------------------
(* What the claims speak of, read off the request and the response *)

\* The handler in hand returned a full analysis
HasAnalysis ==
    /\ endpoint \in {"analyze", "analyze_quiz_results", "main"}
    /\ response.caught = "none"
    /\ response.http \in {0, 200}

TheAnalysis ==
    IF endpoint = "analyze" THEN response.payload.data ELSE response.payload

\* The counts of the request, a missing key or count read as 0 or empty
ReqOverall == IF "overall" \in DOMAIN request.value THEN request.value.overall ELSE EmptyDict
ReqSubjects == IF "subjects" \in DOMAIN request.value THEN request.value.subjects ELSE <<>>
CountOf(rec, name) == IF name \in DOMAIN rec THEN rec[name] ELSE 0

\* correct / total * 100 compared with a whole percentage k, 0 for total = 0
PctAtLeast(rec, k) ==
    IF CountOf(rec, "total") > 0
    THEN 100 * CountOf(rec, "correct") >= k * CountOf(rec, "total")
    ELSE 0 >= k

\* `shown`, in units of 1/scale of a percent, is correct / total * 100 to the
\* nearest unit
ShowsPct(rec, shown, scale) ==
    LET t == CountOf(rec, "total")
        c == CountOf(rec, "correct")
        d == shown * t - 100 * scale * c
    IN  IF t > 0 THEN 2 * d <= t /\ -2 * d <= t ELSE shown = 0

\* The band a record falls in, by inclusive lower bounds
BandOf(rec) ==
    IF PctAtLeast(rec, 85) THEN 1
    ELSE IF PctAtLeast(rec, 70) THEN 2
    ELSE IF PctAtLeast(rec, 50) THEN 3
    ELSE 4

OverallLabels == <<"Excellent", "Good", "Average", "Needs Improvement">>
SubjectLabels == <<"Strong", "Moderate", "Weak", "Critical">>

\* C1: for the overall record and every subject record, the accuracy reported
\* is correct / total * 100 (to 2 decimals) and 0 when total is 0, no error is
\* raised, and the label is the one of the band with inclusive lower bounds
\* 85, 70 and 50.
C1_AccuracyAndBands ==
    /\ (endpoint \in {"analyze_quiz_results", "main"} /\ IsDict(request))
          => response.caught = "none"
    /\ HasAnalysis =>
         /\ ShowsPct(ReqOverall, TheAnalysis.overall_performance.accuracy, 100)
         /\ CountOf(ReqOverall, "total") = 0
               => TheAnalysis.overall_performance.completion_rate = 0
         /\ TheAnalysis.overall_performance.performance_level
               = OverallLabels[BandOf(ReqOverall)]
         /\ Len(TheAnalysis.subject_analysis) = Len(ReqSubjects)
         /\ \A i \in 1..Len(ReqSubjects) :
              LET entry == TheAnalysis.subject_analysis[i]
              IN  /\ entry.key = ReqSubjects[i].key
                  /\ ShowsPct(ReqSubjects[i].stats, entry.value.accuracy, 100)
                  /\ entry.value.status = SubjectLabels[BandOf(ReqSubjects[i].stats)]

\* An analysis of an overall record at exactly 85 with subjects at exactly 70
\* and 50 and a subject with no questions
C1_Witness ==
    /\ HasAnalysis
    /\ CountOf(ReqOverall, "total") = 20 /\ CountOf(ReqOverall, "correct") = 17
    /\ TheAnalysis.overall_performance.performance_level = "Excellent"
    /\ \E i, j, k \in 1..Len(ReqSubjects) :
         /\ CountOf(ReqSubjects[i].stats, "total") = 10
         /\ CountOf(ReqSubjects[i].stats, "correct") = 7
         /\ TheAnalysis.subject_analysis[i].value.status = "Moderate"
         /\ CountOf(ReqSubjects[j].stats, "total") = 2
         /\ CountOf(ReqSubjects[j].stats, "correct") = 1
         /\ TheAnalysis.subject_analysis[j].value.status = "Weak"
         /\ CountOf(ReqSubjects[k].stats, "total") = 0
         /\ TheAnalysis.subject_analysis[k].value.accuracy = 0

\* The recommendations the handler in hand returned
HasRecommendations ==
    HasAnalysis \/ (endpoint = "recommendations" /\ response.http = 200)

TheRecommendations ==
    IF endpoint = "recommendations" THEN response.payload.recommendations
    ELSE TheAnalysis.recommendations

SomeSubjectBelow(k) ==
    \E i \in 1..Len(ReqSubjects) : ~PctAtLeast(ReqSubjects[i].stats, k)
SomeSubjectAtLeast(k) ==
    \E i \in 1..Len(ReqSubjects) : PctAtLeast(ReqSubjects[i].stats, k)

\* C2: the recommendations are, in this order, the High one iff some subject
\* (so the lowest) is below 70, the Medium one for 'All Subjects' iff
\* overall.answered < overall.total, and the Low one iff some subject (so the
\* highest) is at 75 or more; with no subject only the Medium one can appear.
C2_Recommendations ==
    HasRecommendations =>
      LET recs == TheRecommendations
          expected ==
            (IF SomeSubjectBelow(70) THEN <<"High">> ELSE <<>>)
            \o (IF CountOf(ReqOverall, "answered") < CountOf(ReqOverall, "total")
                THEN <<"Medium">> ELSE <<>>)
            \o (IF SomeSubjectAtLeast(75) THEN <<"Low">> ELSE <<>>)
      IN  /\ Len(recs) <= 3
          /\ [i \in 1..Len(recs) |-> recs[i].priority] = expected
          /\ \A i \in 1..Len(recs) :
               recs[i].priority = "Medium" => recs[i].subject = "All Subjects"
          /\ ReqSubjects = <<>> =>
               \A i \in 1..Len(recs) : recs[i].priority = "Medium"

\* All three recommendations returned, in order
C2_Witness ==
    /\ HasRecommendations
    /\ Len(TheRecommendations) = 3
    /\ TheRecommendations[1].priority = "High"
    /\ TheRecommendations[2].subject = "All Subjects"
    /\ TheRecommendations[3].priority = "Low"

\* The request's subjects whose accuracy is below 70, and those at 75 or more
WeakSubjects == {i \in 1..Len(ReqSubjects) : ~PctAtLeast(ReqSubjects[i].stats, 70)}
StrongSubjects == {i \in 1..Len(ReqSubjects) : PctAtLeast(ReqSubjects[i].stats, 75)}

\* The positions of the weaknesses list that hold subject i's record
WeaknessPositions(i) ==
    {p \in 1..Len(TheAnalysis.weaknesses) :
        TheAnalysis.weaknesses[p].subject = Capitalize(ReqSubjects[i].key)}

NthStrong(p) ==
    CHOOSE i \in StrongSubjects :
        Cardinality({j \in StrongSubjects : j <= i}) = p

\* C4: the strengths list is never empty: one string per subject at 75 or
\* more, in iteration order, and when there is none exactly the placeholder,
\* which never stands beside a real entry.
C4_Strengths ==
    HasAnalysis =>
      LET st == TheAnalysis.strengths
          placeholder == <<"Keep practicing to identify your strong subjects">>
      IN  /\ Len(st) >= 1
          /\ StrongSubjects = {} => st = <<placeholder>>
          /\ StrongSubjects # {} =>
               /\ Len(st) = Cardinality(StrongSubjects)
               /\ \A p \in 1..Len(st) :
                    /\ st[p] # placeholder
                    /\ st[p][1] = Capitalize(ReqSubjects[NthStrong(p)].key)
                    /\ ShowsPct(ReqSubjects[NthStrong(p)].stats, st[p][3], 1)

\* An analysis of a dict with no subjects key: the placeholder alone
C4_Witness ==
    /\ HasAnalysis
    /\ IsDict(request)
    /\ "subjects" \notin DOMAIN request.value
    /\ TheAnalysis.strengths
         = << <<"Keep practicing to identify your strong subjects">> >>

\* The study plan the handler in hand returned
HasStudyPlan ==
    HasAnalysis \/ (endpoint = "study_plan" /\ response.http = 200)

TheStudyPlan ==
    IF endpoint = "study_plan" THEN response.payload.study_plan
    ELSE TheAnalysis.study_plan

\* The share of the 180 minutes, in hundredths: 40 below 50, 35 below 70,
\* else 25
ShareOf(rec) ==
    IF ~PctAtLeast(rec, 50) THEN 40 ELSE IF ~PctAtLeast(rec, 70) THEN 35 ELSE 25

\* C5: time_minutes is floor(180 * share / n) for each of the n subjects, and
\* with no subject daily_schedule and weekly_goals are empty.
C5_TimeMinutes ==
    HasStudyPlan =>
      LET plan == TheStudyPlan
          n == Len(ReqSubjects)
      IN  /\ Len(plan.daily_schedule) = n
          /\ Len(plan.weekly_goals) = n
          /\ \A i \in 1..n :
               plan.daily_schedule[i].value.time_minutes
                 = (180 * ShareOf(ReqSubjects[i].stats)) \div (100 * n)

\* C6: analyze returns an error only for a body that is no dict, and that
\* error is an InvalidInput condition; for every dict, the empty one
\* included, it returns a complete analysis.
C6_ErrorsOnlyForNonDict ==
    endpoint \in {"analyze", "analyze_quiz_results"} =>
      IF IsDict(request)
      THEN /\ HasAnalysis
           /\ DOMAIN TheAnalysis = {AnalysisFields[i] : i \in 1..Len(AnalysisFields)}
      ELSE /\ response.payload.status = "failed"
           /\ response.caught = "InvalidInput"

\* The subjects of the weaknesses list, in its order
WeaknessOrder ==
    [p \in 1..Len(TheAnalysis.weaknesses) |-> TheAnalysis.weaknesses[p].subject]

AnalysisOfSample ==
    HasAnalysis /\ IsDict(request) /\ request.value = SampleData

\* C7 as claimed: for the sample input the weaknesses are listed in the order
\* physics, chemistry, biology.
C7_SampleOrderClaimed ==
    AnalysisOfSample => WeaknessOrder = <<"Physics", "Chemistry", "Biology">>

\* C7 amended: for the sample input the weaknesses are listed in the order
\* physics (51.52), biology (62.5), chemistry (69.23).
C7_SampleOrder ==
    AnalysisOfSample => WeaknessOrder = <<"Physics", "Biology", "Chemistry">>

\* The sample input analysed: three weaknesses, physics (51.52) first
C7_Witness ==
    /\ AnalysisOfSample
    /\ Len(TheAnalysis.weaknesses) = 3
    /\ TheAnalysis.weaknesses[1].accuracy = 5152

\* C10: the High recommendation is present iff the weaknesses list is not
\* empty, and it then names the subject of the first weakness.
C10_WeakestAgrees ==
    HasAnalysis =>
      LET high == {r \in 1..Len(TheAnalysis.recommendations) :
                      TheAnalysis.recommendations[r].priority = "High"}
      IN  /\ (high # {}) <=> (TheAnalysis.weaknesses # <<>>)
          /\ \A r \in high :
               TheAnalysis.recommendations[r].subject
                 = TheAnalysis.weaknesses[1].subject

----------------------------------------------------------------------------
(* Claims about calls on the shared analyzer, under SpecServer *)

Finished(c) == calls[c].pc = "done"

\* C8: no two analyze calls return the same analysis_id.
C8_UniqueAnalysisIds ==
    \A c, d \in CallIds :
      (c # d /\ Finished(c) /\ Finished(d))
        => calls[c].result.analysis_id # calls[d].result.analysis_id

\* An analysis without the two values read off the clock
WithoutClock(analysis) ==
    [f \in DOMAIN analysis \ {"analysis_id", "timestamp"} |-> analysis[f]]

\* What call c returns when it runs alone on the dict it was passed
AloneResult(c) ==
    CASE calls[c].pc = "done" -> WithoutClock(AnalyzeResults(calls[c].arg, 0, 0))
      [] calls[c].pc = "done_recommendations" -> GenerateRecommendations(calls[c].arg)
      [] calls[c].pc = "done_study_plan" -> CreateStudyPlan(calls[c].arg)

Returned(c) ==
    IF calls[c].pc = "done" THEN WithoutClock(calls[c].result) ELSE calls[c].result

HasReturned(c) ==
    calls[c].pc \in {"done", "done_recommendations", "done_study_plan"}

\* C9: under every interleaving each call returns what it returns when run
\* alone on its input, calls of one kind on equal inputs return equal results
\* but for analysis_id and timestamp, and no call changes its quiz_data or
\* the analyzer's topic table.
C9_CallsIndependent ==
    /\ \A c \in CallIds : HasReturned(c) => Returned(c) = AloneResult(c)
    /\ \A c, d \in CallIds :
         (HasReturned(c) /\ calls[d].pc = calls[c].pc /\ calls[d].arg = calls[c].arg)
           => Returned(c) = Returned(d)
    /\ \A c \in CallIds : calls[c].pc # "idle" => objects[calls[c].obj] = calls[c].arg
    /\ subject_topics = [biology |-> 8, chemistry |-> 11, physics |-> 13]

\* Two analyze calls on the same dict have interleaved: c has returned with
\* a timestamp later than the one d, still part-way through, had already read
C9_Witness ==
    \E c, d \in CallIds :
      /\ Finished(c)
      /\ calls[d].pc = "analyze" /\ "weaknesses" \notin DOMAIN calls[d].frame
      /\ "recommendations" \in DOMAIN calls[d].frame
      /\ calls[c].obj = calls[d].obj
      /\ calls[d].frame.timestamp[2] < calls[c].result.timestamp[2]
      /\ Returned(c) = AloneResult(c)

====
